---- MODULE Spec2Model ----
(***************************************************************************)
(* Model of the RBAC + ownership authorization engine of the auto-         *)
(* generated CRUD platform: the pure decision functions of lib/rbac.ts,    *)
(* lib/users.ts and lib/models.ts, the in-memory stores of lib/models.ts   *)
(* and lib/dataStore.ts, and the route handlers of app/api/data and        *)
(* app/api/models that compose them.                                       *)
(***************************************************************************)
EXTENDS Integers, Sequences, FiniteSets, TLC

VARIABLES
    call,       \* the pending or last call of a pure function: its name and arguments
    ret,        \* what call returned (meaningful once pc = "returned")
    pc,         \* "ready" before the pure call, "returned" after it
    db,         \* the database behind `db`: its tables, as sets of rows
    models,     \* lib/models.ts `models`: model name -> ModelDefinition or NoModel
    dataStore,  \* lib/dataStore.ts `dataStore`: model name -> (record id -> record)
    nextId,     \* number of record ids generated so far
    inflight,   \* handlers suspended at `await request.json()`
    last        \* the handler step that ran last, with its response

vars == <<call, ret, pc, db, models, dataStore, nextId, inflight, last>>

-----------------------------------------------------------------------------
(* JavaScript values, as far as the handlers and validators distinguish them *)

Undefined == [t |-> "undefined", s |-> "", n |-> 0]
Null == [t |-> "null", s |-> "", n |-> 0]
Str(x) == [t |-> "string", s |-> x, n |-> 0]
Num(k) == [t |-> "number", s |-> "", n |-> k]
Bool(b) == [t |-> "boolean", s |-> "", n |-> IF b THEN 1 ELSE 0]
NaN == [t |-> "number", s |-> "NaN", n |-> 0]

\* JavaScript truthiness of a value (the `!x` and `x && ...` tests of the code)
Truthy(v) ==
    CASE v.t = "undefined" -> FALSE
      [] v.t = "null" -> FALSE
      [] v.t = "string" -> v.s # ""
      [] v.t = "number" -> v.s # "NaN" /\ v.n # 0
      [] v.t = "boolean" -> v.n = 1
      [] OTHER -> TRUE

-----------------------------------------------------------------------------
(* lib/auth.ts UserRole, lib/rbac.ts RBACRule *)

Roles == {"Admin", "Manager", "Viewer"}

Actions == {"create", "read", "update", "delete"}

\* permissions[action] when the rule has no such property
NoEntry == [present |-> FALSE, roles |-> {}]

\* permissions[action] when it is an array of roles (possibly the empty array)
RoleList(R) == [present |-> TRUE, roles |-> R]

Entries == {NoEntry} \cup {RoleList(R) : R \in SUBSET Roles}

\* `permissions` undefined
NoRule == [defined |-> FALSE, entries |-> [a \in Actions |-> NoEntry]]

Rule(e) == [defined |-> TRUE, entries |-> e]

Rules == {NoRule} \cup {Rule(e) : e \in [Actions -> Entries]}

\* truthiness of permissions[action]: an array is truthy even when empty
EntryTruthy(entry) == entry.present

canPerformAction_AdminAlways(userRole, action, permissions) ==
    IF userRole = "Admin" THEN TRUE
    ELSE IF ~permissions.defined \/ ~EntryTruthy(permissions.entries[action])
         THEN FALSE
         ELSE userRole \in permissions.entries[action].roles

canPerformAction_DefaultOpen(userRole, action, permissions) ==
    IF ~permissions.defined \/ ~EntryTruthy(permissions.entries[action])
    THEN TRUE
    ELSE userRole \in permissions.entries[action].roles

canPerformAction(userRole, action, permissions) ==
    IF ~permissions.defined \/ ~EntryTruthy(permissions.entries[action])
    THEN userRole = "Admin"
    ELSE LET allowedRoles == permissions.entries[action].roles
         IN  userRole \in allowedRoles

checkOwnership_NoAdminBypass(userId, ownerId, userRole) ==
    IF ~Truthy(ownerId) THEN TRUE ELSE Str(userId) = ownerId

checkOwnership_NoPublic(userId, ownerId, userRole) ==
    IF userRole = "Admin" THEN TRUE ELSE Str(userId) = ownerId

\* String.prototype.toLowerCase on the modelled user ids
Lower(x) == IF x = "X" THEN "x" ELSE x

checkOwnership_CaseInsensitive(userId, ownerId, userRole) ==
    IF userRole = "Admin" THEN TRUE
    ELSE IF ~Truthy(ownerId) THEN TRUE
    ELSE Lower(userId) = Lower(ownerId.s)

checkOwnership(userId, ownerId, userRole) ==
    IF userRole = "Admin" THEN TRUE
    ELSE IF ~Truthy(ownerId) THEN TRUE
    ELSE Str(userId) = ownerId

roleHierarchy == [Admin |-> 3, Manager |-> 2, Viewer |-> 1]

hasPermission_Strict(userRole, requiredRole) ==
    roleHierarchy[userRole] > roleHierarchy[requiredRole]

hasPermission(userRole, requiredRole) ==
    roleHierarchy[userRole] >= roleHierarchy[requiredRole]

-----------------------------------------------------------------------------
(* lib/models.ts: field definitions and the validators *)

Infinity == [t |-> "number", s |-> "Infinity", n |-> 0]

\* an optional numeric constraint (min, max, minLength, maxLength)
Unset == [set |-> FALSE, v |-> 0]
Limit(k) == [set |-> TRUE, v |-> k]

NoValidation ==
    [required |-> FALSE, min |-> Unset, max |-> Unset,
     minLength |-> Unset, maxLength |-> Unset, pattern |-> ""]

\* a ModelField; label "" and pattern "" stand for the absent (falsy) property
Field(name, type, required) ==
    [name |-> name, type |-> type, label |-> "", required |-> required,
     validation |-> NoValidation]

\* the decimal literals of the modelled strings that Number() parses
NumericLiterals == {<<"0", 0>>, <<"5", 5>>, <<"10", 10>>}

\* Number(value)
ToNumber(v) ==
    CASE v.t = "number" -> v
      [] v.t = "boolean" -> Num(v.n)
      [] v.t = "null" -> Num(0)
      [] v.t = "string" ->
            IF v.s = "" THEN Num(0)
            ELSE IF v.s = "Infinity" THEN Infinity
            ELSE IF \E p \in NumericLiterals : p[1] = v.s
                 THEN Num((CHOOSE p \in NumericLiterals : p[1] = v.s)[2])
                 ELSE NaN
      [] OTHER -> NaN

isNaN(num) == num.s = "NaN"

\* num < k and num > k for a JavaScript number and an integer k
NumLess(num, k) == num.s = "" /\ num.n < k
NumGreater(num, k) == num.s = "Infinity" \/ (num.s = "" /\ num.n > k)

\* String(value)
ToStr(v) ==
    CASE v.t = "string" -> v.s
      [] v.t = "number" -> IF v.s # "" THEN v.s ELSE ToString(v.n)
      [] v.t = "boolean" -> IF v.n = 1 THEN "true" ELSE "false"
      [] v.t = "null" -> "null"
      [] v.t = "undefined" -> "undefined"
      [] OTHER -> "[object Object]"

\* new RegExp(pattern).test(str), for the patterns the modelled fields declare
RegexTest(pattern, str) ==
    CASE pattern = "^[a-z]+$" -> str \in {"a", "abc", "xyz", "true", "false", "null", "undefined"}
      [] pattern = "^[0-9]+$" -> str \in {"0", "5", "10"}
      [] OTHER -> FALSE

\* the patterns new RegExp(pattern) rejects with a SyntaxError, among those the
\* modelled fields declare
InvalidPatterns == {"(", "["}

RegexCompiles(pattern) == pattern \notin InvalidPatterns

\* /^[^\s@]+@[^\s@]+\.[^\s@]+$/.test(str), on the modelled strings
EmailRegexTest(str) == str \in {"a@b.com"}

\* whether new URL(str) succeeds, on the modelled strings
UrlParses(str) == str \in {"https://x.io"}

\* whether new Date(str).getTime() is a number, on the modelled strings
DateParses(str) == str \in {"2024-01-01", "0", "5", "10", "11"}

NoError == ""

\* the outcome of a call that threw instead of returning
Thrown == "throw SyntaxError: Invalid regular expression"

LabelOrName(field) == IF field.label # "" THEN field.label ELSE field.name

\* only the legacy flag makes a field required, and nothing else is checked
\* (a variant of validateField)
validateField_LegacyRequired(value, field) ==
    IF (value = Null \/ value = Undefined \/ value = Str("")) /\ field.required
    THEN LabelOrName(field) \o " is required"
    ELSE NoError

\* the number branch rejecting the bounds themselves (a variant of numberChecks)
numberChecks_Exclusive(value, field) ==
    LET validation == field.validation
        who == LabelOrName(field)
        num == ToNumber(value)
    IN  IF field.type # "number" THEN NoError
        ELSE IF isNaN(num) THEN who \o " must be a number"
        ELSE IF validation.min.set /\ NumLess(num, validation.min.v + 1)
             THEN who \o " must be at least " \o ToString(validation.min.v)
        ELSE IF validation.max.set /\ NumGreater(num, validation.max.v - 1)
             THEN who \o " must be at most " \o ToString(validation.max.v)
        ELSE NoError

\* the number branch with the max test ahead of the min test (a variant of
\* numberChecks)
numberChecks_MaxFirst(value, field) ==
    LET validation == field.validation
        who == LabelOrName(field)
        num == ToNumber(value)
    IN  IF field.type # "number" THEN NoError
        ELSE IF isNaN(num) THEN who \o " must be a number"
        ELSE IF validation.max.set /\ NumGreater(num, validation.max.v)
             THEN who \o " must be at most " \o ToString(validation.max.v)
        ELSE IF validation.min.set /\ NumLess(num, validation.min.v)
             THEN who \o " must be at least " \o ToString(validation.min.v)
        ELSE NoError

\* the number branch of validateField: NaN, then min, then max
numberChecks(value, field) ==
    LET validation == field.validation
        who == LabelOrName(field)
        num == ToNumber(value)
    IN  IF field.type # "number" THEN NoError
        ELSE IF isNaN(num) THEN who \o " must be a number"
        ELSE IF validation.min.set /\ NumLess(num, validation.min.v)
             THEN who \o " must be at least " \o ToString(validation.min.v)
        ELSE IF validation.max.set /\ NumGreater(num, validation.max.v)
             THEN who \o " must be at most " \o ToString(validation.max.v)
        ELSE NoError

\* the error message, NoError for null, or Thrown when new RegExp throws
validateField(value, field) ==
    LET validation == field.validation
        isRequired == validation.required \/ field.required
        isEmpty == value = Null \/ value = Undefined \/ value = Str("")
        who == LabelOrName(field)
        str == ToStr(value)
        numberError == numberChecks(value, field)
        stringError ==
            IF field.type \notin {"string", "email", "url"} THEN NoError
            ELSE IF validation.minLength.set /\ Len(str) < validation.minLength.v
                 THEN who \o " must be at least " \o ToString(validation.minLength.v)
                          \o " characters"
            ELSE IF validation.maxLength.set /\ Len(str) > validation.maxLength.v
                 THEN who \o " must be at most " \o ToString(validation.maxLength.v)
                          \o " characters"
            ELSE IF validation.pattern # "" /\ ~RegexCompiles(validation.pattern)
                 THEN Thrown
            ELSE IF validation.pattern # "" /\ ~RegexTest(validation.pattern, str)
                 THEN who \o " format is invalid"
            ELSE NoError
        emailError ==
            IF field.type = "email" /\ ~EmailRegexTest(str)
            THEN who \o " must be a valid email" ELSE NoError
        urlError ==
            IF field.type = "url" /\ ~UrlParses(str)
            THEN who \o " must be a valid URL" ELSE NoError
        dateError ==
            IF field.type = "date" /\ ~DateParses(str)
            THEN who \o " must be a valid date" ELSE NoError
        booleanError ==
            IF field.type = "boolean" /\ value.t # "boolean"
               /\ value # Str("true") /\ value # Str("false")
            THEN who \o " must be a boolean value" ELSE NoError
    IN  IF isRequired /\ isEmpty THEN who \o " is required"
        ELSE IF isEmpty THEN NoError
        ELSE IF numberError # NoError THEN numberError
        ELSE IF stringError # NoError THEN stringError
        ELSE IF emailError # NoError THEN emailError
        ELSE IF urlError # NoError THEN urlError
        ELSE IF dateError # NoError THEN dateError
        ELSE booleanError

\* whether validateModelData throws: the loop calls a validateField that throws
validateModelDataThrows(data, model) ==
    \E i \in 1..Len(model.fields) :
        validateField(data[model.fields[i].name], model.fields[i]) = Thrown

\* the loop left at the first error (a variant of validateModelData)
validateModelData_FirstOnly(data, model) ==
    LET failing == {i \in 1..Len(model.fields) :
                        validateField(data[model.fields[i].name], model.fields[i]) # NoError}
        first == CHOOSE i \in failing : \A k \in failing : i <= k
    IN  IF failing = {} THEN <<>>
        ELSE [nm \in {model.fields[first].name} |->
                validateField(data[nm], model.fields[first])]

\* the errors object: field name -> message, for the fields that failed
\* (data is a record object: property name -> value, Undefined when absent)
validateModelData(data, model) ==
    LET failing == {i \in 1..Len(model.fields) :
                        validateField(data[model.fields[i].name], model.fields[i]) # NoError}
        names == {model.fields[i].name : i \in failing}
    IN  [nm \in names |->
            LET i == CHOOSE j \in failing :
                        /\ model.fields[j].name = nm
                        /\ \A k \in failing : model.fields[k].name = nm => k <= j
            IN  validateField(data[nm], model.fields[i])]

-----------------------------------------------------------------------------
(* Principals: what getCurrentUser() yields for a request *)

NoUser == [id |-> "", role |-> "none"]

\* the seeded accounts (ids are the autoincrement keys, as strings)
Principals ==
    {[id |-> "1", role |-> "Admin"],
     [id |-> "2", role |-> "Manager"],
     [id |-> "3", role |-> "Viewer"]}

Callers == Principals \cup {NoUser}

-----------------------------------------------------------------------------
(* lib/models.ts: the model store *)

ModelNames == {"Product"}

\* the property names a record object or request payload may carry
RecFields == {"id", "ownerId", "name"}

\* models.get(name) when the map holds no such key
NoModel == [name |-> "", fields |-> <<>>, ownerField |-> "", permissions |-> NoRule]

ProductFields == <<Field("name", "string", TRUE)>>

\* the permissions of the documentation's Product example
DocRule ==
    Rule([create |-> RoleList({"Admin", "Manager"}),
          read |-> RoleList({"Admin", "Manager", "Viewer"}),
          update |-> RoleList({"Admin", "Manager"}),
          delete |-> RoleList({"Admin"})])

OpenRule == Rule([a \in Actions |-> RoleList(Roles)])

\* the rule POST /api/models stores when the payload carries no permissions
DefaultRule ==
    Rule([create |-> RoleList({"Admin"}),
          read |-> RoleList({"Admin", "Manager", "Viewer"}),
          update |-> RoleList({"Admin"}),
          delete |-> RoleList({"Admin"})])

\* a request body of POST /api/models; ownerField "" is the absent property,
\* permissions NoRule the absent property, fieldsArray whether fields is an array
ModelPayload(name, fieldsArray, ownerField, permissions) ==
    [name |-> name, fieldsArray |-> fieldsArray, fields |-> ProductFields,
     ownerField |-> ownerField, permissions |-> permissions]

\* the bodies sent: four definitions of Product, and two bodies the handler rejects
ModelPayloads ==
    {ModelPayload("Product", TRUE, "ownerId", DocRule),
     ModelPayload("Product", TRUE, "ownerId", OpenRule),
     ModelPayload("Product", TRUE, "ownerId", NoRule),
     ModelPayload("Product", TRUE, "", OpenRule),
     ModelPayload("", TRUE, "ownerId", DocRule),
     ModelPayload("Product", FALSE, "ownerId", DocRule)}

getModel(name) == IF name \in DOMAIN models THEN models[name] ELSE NoModel

saveModel(model) == models' = [models EXCEPT ![model.name] = model]

\* a delete that leaves the definition in the store (a variant of deleteModel)
deleteModel_KeepsDefinition(name) == models' = models

deleteModel(name) == models' = [models EXCEPT ![name] = NoModel]

-----------------------------------------------------------------------------
(* lib/dataStore.ts: the record store *)

MaxRecords == 1

\* Date.now().toString() + Math.random()...: the k-th generated id, taken fresh
IdOf(k) == "r" \o ToString(k)

AllIds == {IdOf(k) : k \in 1..MaxRecords}

\* getRecordById's undefined, updateRecord's null
NoRecord == [f \in RecFields |-> Undefined]

\* obj[key]
Prop(obj, key) == IF key \in DOMAIN obj THEN obj[key] ELSE Undefined

\* { ...a, ...b }: b's own properties override a's
Spread(a, b) == [f \in RecFields |-> IF b[f] # Undefined THEN b[f] ELSE a[f]]

\* delete obj[key]
Without(obj, key) == [f \in RecFields |-> IF f = key THEN Undefined ELSE obj[f]]

WithProp(obj, key, value) == [f \in RecFields |-> IF f = key THEN value ELSE obj[f]]

OnlyId(id) == [f \in RecFields |-> IF f = "id" THEN Str(id) ELSE Undefined]

getModelData(modelName) ==
    {dataStore[modelName][i] : i \in DOMAIN dataStore[modelName]}

getRecordById(modelName, id) ==
    IF id \in DOMAIN dataStore[modelName] THEN dataStore[modelName][id] ELSE NoRecord

\* the record createRecord builds: { id, ...data }
NewRecord(id, data) == Spread(OnlyId(id), data)

createRecord(modelName, id, data) ==
    dataStore' = [dataStore EXCEPT ![modelName] =
        [i \in DOMAIN dataStore[modelName] \cup {id} |->
            IF i = id THEN NewRecord(id, data) ELSE dataStore[modelName][i]]]

\* the record updateRecord builds: { ...existing, ...data, id }
Updated(existing, data, id) == Spread(Spread(existing, data), OnlyId(id))

\* updateRecord's result: the updated record, or null when the id is not stored
updateResult(modelName, id, data) ==
    IF id \in DOMAIN dataStore[modelName]
    THEN Updated(dataStore[modelName][id], data, id)
    ELSE NoRecord

updateRecord(modelName, id, data) ==
    IF id \in DOMAIN dataStore[modelName]
    THEN dataStore' = [dataStore EXCEPT ![modelName][id] =
                          Updated(dataStore[modelName][id], data, id)]
    ELSE dataStore' = dataStore

deleteRecord(modelName, id) ==
    dataStore' = [dataStore EXCEPT ![modelName] =
        [i \in DOMAIN dataStore[modelName] \ {id} |-> dataStore[modelName][i]]]

-----------------------------------------------------------------------------
(* Requests and responses *)

MaxInflight == 1

\* JSON bodies of POST and PUT /api/data/[modelName]: absent properties are Undefined
DataPayloads ==
    {[id |-> Undefined, ownerId |-> o, name |-> n] :
        o \in {Undefined, Str(""), Str("3")},
        n \in {Undefined, Str(""), Str("abc"), Str("xyz")}}
    \cup {[id |-> Str("r2"), ownerId |-> Undefined, name |-> Str("abc")]}

\* the response of the handler that answered last: op names the handler, status 0
\* means that nothing was answered yet
Response(op, user, status, modelName, id, record, data) ==
    [op |-> op, user |-> user, status |-> status, modelName |-> modelName,
     id |-> id, record |-> record, data |-> data]

NoResponse == Response("none", NoUser, 0, "", "", NoRecord, {})

\* a handler suspended at `await request.json()`, with the locals it holds
Suspended(op, user, modelName, id, model, existingRecord) ==
    [op |-> op, user |-> user, modelName |-> modelName, id |-> id,
     model |-> model, existingRecord |-> existingRecord]

\* a filter that keeps the caller's own records only (a variant of OwnedOrPublic)
OwnedOrPublic_OwnedOnly(record, model, user) ==
    Prop(record, model.ownerField) = Str(user.id)

\* the list handler's filter callback
OwnedOrPublic(record, model, user) ==
    LET ownerId == Prop(record, model.ownerField)
    IN  ~Truthy(ownerId) \/ ownerId = Str(user.id)

\* GET /api/data/[modelName]
DataGET(user, modelName) ==
    LET model == getModel(modelName)
        data == getModelData(modelName)
        filteredData ==
            IF model.ownerField # "" /\ user.role # "Admin"
            THEN {record \in data : OwnedOrPublic(record, model, user)}
            ELSE data
        status ==
            IF user = NoUser THEN 401
            ELSE IF model = NoModel THEN 404
            ELSE IF ~canPerformAction(user.role, "read", model.permissions) THEN 403
            ELSE 200
    IN  /\ last' = Response("GET", user, status, modelName, "", NoRecord,
                            IF status = 200 THEN filteredData ELSE {})
        /\ UNCHANGED <<call, ret, pc, db, models, dataStore, nextId, inflight>>

\* a gate that holds back Viewers only, Manager passing as Admin does
\* (a variant of OwnershipDenied)
OwnershipDenied_ViewerOnly(user, model, record) ==
    /\ model.ownerField # ""
    /\ user.role = "Viewer"
    /\ ~checkOwnership(user.id, Prop(record, model.ownerField), user.role)

\* a gate that lets every caller through (a variant of OwnershipDenied)
OwnershipDenied_Never(user, model, record) == FALSE

\* the ownership gate of the single-record handlers
OwnershipDenied(user, model, record) ==
    /\ model.ownerField # ""
    /\ ~checkOwnership(user.id, Prop(record, model.ownerField), user.role)

\* the record looked up before the permission check (a variant of GateStatus)
GateStatus_LookupFirst(user, modelName, id, action) ==
    LET model == getModel(modelName)
        record == getRecordById(modelName, id)
    IN  IF user = NoUser THEN 401
        ELSE IF model = NoModel THEN 404
        ELSE IF record = NoRecord THEN 404
        ELSE IF ~canPerformAction(user.role, action, model.permissions) THEN 403
        ELSE IF OwnershipDenied(user, model, record) THEN 403
        ELSE 0

\* the status the single-record handlers answer before they act, 0 when they go on
GateStatus(user, modelName, id, action) ==
    LET model == getModel(modelName)
        record == getRecordById(modelName, id)
    IN  IF user = NoUser THEN 401
        ELSE IF model = NoModel THEN 404
        ELSE IF ~canPerformAction(user.role, action, model.permissions) THEN 403
        ELSE IF record = NoRecord THEN 404
        ELSE IF OwnershipDenied(user, model, record) THEN 403
        ELSE 0

\* GET /api/data/[modelName]/[id]
DataGETById(user, modelName, id) ==
    LET gate == GateStatus(user, modelName, id, "read")
    IN  /\ last' = IF gate # 0
                   THEN Response("GETById", user, gate, modelName, id, NoRecord, {})
                   ELSE Response("GETById", user, 200, modelName, id,
                                 getRecordById(modelName, id), {})
        /\ UNCHANGED <<call, ret, pc, db, models, dataStore, nextId, inflight>>

\* DELETE /api/data/[modelName]/[id]
\* (no await separates getRecordById from deleteRecord, so deleteRecord finds the
\* record and the "Failed to delete record" branch is never taken)
DataDELETE(user, modelName, id) ==
    LET gate == GateStatus(user, modelName, id, "delete")
    IN  /\ IF gate # 0
           THEN /\ last' = Response("DELETE", user, gate, modelName, id, NoRecord, {})
                /\ UNCHANGED dataStore
           ELSE /\ deleteRecord(modelName, id)
                /\ last' = Response("DELETE", user, 200, modelName, id, NoRecord, {})
        /\ UNCHANGED <<call, ret, pc, db, models, nextId, inflight>>

\* PUT /api/data/[modelName]/[id], up to `await request.json()`
DataPUTBegin(user, modelName, id) ==
    LET gate == GateStatus(user, modelName, id, "update")
    IN  /\ IF gate # 0
           THEN /\ last' = Response("PUT", user, gate, modelName, id, NoRecord, {})
                /\ UNCHANGED inflight
           ELSE /\ Cardinality(inflight) < MaxInflight
                /\ inflight' = inflight \cup
                       {Suspended("PUT", user, modelName, id, getModel(modelName),
                                  getRecordById(modelName, id))}
                /\ UNCHANGED last
        /\ UNCHANGED <<call, ret, pc, db, models, dataStore, nextId>>

\* the payload PUT hands to updateRecord: the owner property deleted when truthy
StripOwner(data, model) ==
    IF model.ownerField # "" /\ Truthy(Prop(data, model.ownerField))
    THEN Without(data, model.ownerField)
    ELSE data

\* PUT /api/data/[modelName]/[id], from `await request.json()` on
DataPUTFinish(req, data) ==
    LET errors == validateModelData(Spread(req.existingRecord, data), req.model)
        stripped == StripOwner(data, req.model)
    IN  /\ req \in inflight
        /\ req.op = "PUT"
        /\ inflight' = inflight \ {req}
        /\ IF validateModelDataThrows(Spread(req.existingRecord, data), req.model)
           THEN /\ last' = Response("PUT", req.user, 500, req.modelName, req.id, NoRecord, {})
                /\ UNCHANGED dataStore
           ELSE IF DOMAIN errors # {}
           THEN /\ last' = Response("PUT", req.user, 400, req.modelName, req.id, NoRecord, {})
                /\ UNCHANGED dataStore
           ELSE /\ updateRecord(req.modelName, req.id, stripped)
                /\ last' = Response("PUT", req.user, 200, req.modelName, req.id,
                                    updateResult(req.modelName, req.id, stripped), {})
        /\ UNCHANGED <<call, ret, pc, db, models, nextId>>

\* POST /api/data/[modelName], up to `await request.json()`
DataPOSTBegin(user, modelName) ==
    LET model == getModel(modelName)
        status ==
            IF user = NoUser THEN 401
            ELSE IF model = NoModel THEN 404
            ELSE IF ~canPerformAction(user.role, "create", model.permissions) THEN 403
            ELSE 0
    IN  /\ IF status # 0
           THEN /\ last' = Response("POST", user, status, modelName, "", NoRecord, {})
                /\ UNCHANGED inflight
           ELSE /\ Cardinality(inflight) < MaxInflight
                /\ nextId + Cardinality({r \in inflight : r.op = "POST"}) < MaxRecords
                /\ inflight' = inflight \cup
                       {Suspended("POST", user, modelName, "", model, NoRecord)}
                /\ UNCHANGED last
        /\ UNCHANGED <<call, ret, pc, db, models, dataStore, nextId>>

\* the owner field read from the model store at the write, not from the
\* definition the handler holds (a variant of StampOwner)
StampOwner_Live(data, model, user) ==
    IF getModel(model.name).ownerField # ""
    THEN WithProp(data, getModel(model.name).ownerField, Str(user.id))
    ELSE data

\* data[ownerField] ||= user.id: the payload's owner kept when it names one
\* (a variant of StampOwner)
StampOwner_KeepPayload(data, model, user) ==
    IF model.ownerField # "" /\ ~Truthy(Prop(data, model.ownerField))
    THEN WithProp(data, model.ownerField, Str(user.id))
    ELSE data

\* the payload POST hands to createRecord: the owner property set to the caller's id
StampOwner(data, model, user) ==
    IF model.ownerField # ""
    THEN WithProp(data, model.ownerField, Str(user.id))
    ELSE data

\* POST /api/data/[modelName], from `await request.json()` on
DataPOSTFinish(req, data) ==
    LET errors == validateModelData(data, req.model)
        stamped == StampOwner(data, req.model, req.user)
        id == IdOf(nextId + 1)
    IN  /\ req \in inflight
        /\ req.op = "POST"
        /\ inflight' = inflight \ {req}
        /\ IF validateModelDataThrows(data, req.model)
           THEN /\ last' = Response("POST", req.user, 500, req.modelName, "", NoRecord, {})
                /\ UNCHANGED <<dataStore, nextId>>
           ELSE IF DOMAIN errors # {}
           THEN /\ last' = Response("POST", req.user, 400, req.modelName, "", NoRecord, {})
                /\ UNCHANGED <<dataStore, nextId>>
           ELSE /\ createRecord(req.modelName, id, stamped)
                /\ nextId' = nextId + 1
                /\ last' = Response("POST", req.user, 201, req.modelName, id,
                                    NewRecord(id, stamped), {})
        /\ UNCHANGED <<call, ret, pc, db, models>>

\* a POST or PUT whose body is no JSON: request.json() rejects, the catch answers 500
DataBodyRejected(req) ==
    /\ req \in inflight
    /\ inflight' = inflight \ {req}
    /\ last' = Response(req.op, req.user, 500, req.modelName, req.id, NoRecord, {})
    /\ UNCHANGED <<call, ret, pc, db, models, dataStore, nextId>>

\* the ModelDefinition POST /api/models builds from its body
BuildModel(modelData) ==
    [name |-> modelData.name, fields |-> modelData.fields,
     ownerField |-> modelData.ownerField,
     permissions |-> IF modelData.permissions.defined
                     THEN modelData.permissions ELSE DefaultRule]

\* POST /api/models
\* (nothing but the caller is read before `await request.json()`, so the handler
\* is one step; createdAt and updatedAt are not modelled)
ModelsPOST(user, modelData) ==
    LET status ==
            IF user = NoUser THEN 401
            ELSE IF user.role # "Admin" THEN 403
            ELSE IF modelData.name = "" \/ ~modelData.fieldsArray THEN 400
            ELSE 200
    IN  /\ IF status = 200 THEN saveModel(BuildModel(modelData)) ELSE UNCHANGED models
        /\ last' = Response("ModelsPOST", user, status, modelData.name, "", NoRecord, {})
        /\ UNCHANGED <<call, ret, pc, db, dataStore, nextId, inflight>>

\* the role test left out, any authenticated caller deleting (a variant of
\* ModelDELETE)
ModelDELETE_AnyRole(user, name) ==
    LET status ==
            IF user = NoUser THEN 401
            ELSE IF getModel(name) = NoModel THEN 404
            ELSE 200
    IN  /\ IF status = 200 THEN deleteModel(name) ELSE UNCHANGED models
        /\ last' = Response("ModelDELETE", user, status, name, "", NoRecord, {})
        /\ UNCHANGED <<call, ret, pc, db, dataStore, nextId, inflight>>

\* DELETE /api/models/[name]
ModelDELETE(user, name) ==
    LET status ==
            IF user = NoUser THEN 401
            ELSE IF user.role # "Admin" THEN 403
            ELSE IF getModel(name) = NoModel THEN 404
            ELSE 200
    IN  /\ IF status = 200 THEN deleteModel(name) ELSE UNCHANGED models
        /\ last' = Response("ModelDELETE", user, status, name, "", NoRecord, {})
        /\ UNCHANGED <<call, ret, pc, db, dataStore, nextId, inflight>>

-----------------------------------------------------------------------------
(* The database-backed routes: users, sessions, model definitions and model *)
(* versions. Tables are sets of rows; a handler is one step per stretch of   *)
(* code between two database round trips.                                    *)

MaxUsers == 4
MaxSessions == 1
MaxVersions == 2
MaxDbInflight == 2

VALID_ROLES == {"Admin", "Manager", "Viewer"}

\* the rows the users seeder inserts
SeedUsers ==
    {[id |-> 1, email |-> "admin@example.com", password |-> "hash", name |-> "Admin User",
      role |-> "Admin"],
     [id |-> 2, email |-> "manager@example.com", password |-> "hash",
      name |-> "Manager User", role |-> "Manager"],
     [id |-> 3, email |-> "viewer@example.com", password |-> "hash", name |-> "Viewer User",
      role |-> "Viewer"]}

\* the database once seeded: three users, no session, no definition, no version
SeedDb ==
    [users |-> SeedUsers, sessions |-> {}, modelDefinitions |-> {}, modelVersions |-> {}]

\* the model_definitions row a POST /api/model-definitions by user 1 inserts first
FirstDefinition ==
    [id |-> 1, name |-> "Product", tableName |-> "products", fields |-> "[]",
     createdBy |-> 1]

\* parseInt on the strings the requests carry
ParseInt(str) ==
    CASE str = "1" -> Num(1)
      [] str = "2" -> Num(2)
      [] str = "9" -> Num(9)
      [] OTHER -> NaN

\* the next AUTOINCREMENT key of a table no row was deleted from
NextKey(rows) == Cardinality(rows) + 1

excludePassword(user) ==
    [id |-> user.id, email |-> user.email, name |-> user.name, role |-> user.role]

\* a response of a database-backed handler: the rows it carries are in data
DbResponse(op, user, status, rows) == Response(op, user, status, "", "", NoRecord, rows)

\* a database-backed handler between two round trips: pc names the next one
\* (existing and updated hold the rows a select or an update returned, nextVersion
\* the number computed for the version to insert, 0 before that)
DbSuspended(op, user, at, id, body) ==
    [op |-> op, user |-> user, pc |-> at, id |-> id, body |-> body,
     existing |-> {}, updated |-> {}, nextVersion |-> 0]

\* a body that is no JSON: request.json() rejects and the catch answers 500
NotJson == [json |-> FALSE]

\* GET /api/users: ?id= selects one user, otherwise the list (search, limit and
\* offset are not modelled: the list fits the default page)
UsersGET(user, id) ==
    LET found == {u \in db.users : Num(u.id) = ParseInt(id)}
    IN  /\ last' =
              IF id # "" /\ isNaN(ParseInt(id)) THEN DbResponse("UsersGET", user, 400, {})
              ELSE IF id # "" /\ found = {} THEN DbResponse("UsersGET", user, 404, {})
              ELSE IF id # ""
                   THEN DbResponse("UsersGET", user, 200, {excludePassword(u) : u \in found})
              ELSE DbResponse("UsersGET", user, 200, {excludePassword(u) : u \in db.users})
        /\ UNCHANGED <<call, ret, pc, db, models, dataStore, nextId, inflight>>

\* bodies of POST /api/users ("" is an absent or empty property)
GoodUserBody ==
    [json |-> TRUE, email |-> "new@example.com", password |-> "pw", name |-> "New",
     role |-> "Admin"]

UserBodies ==
    {GoodUserBody,
     [GoodUserBody EXCEPT !.email = ""],
     [GoodUserBody EXCEPT !.email = "admin@example.com"],
     [GoodUserBody EXCEPT !.password = ""],
     [GoodUserBody EXCEPT !.name = ""],
     [GoodUserBody EXCEPT !.role = ""],
     [GoodUserBody EXCEPT !.role = "Root"],
     NotJson}

\* POST /api/users, up to the wait for the email lookup
\* (toLowerCase().trim() leaves the modelled emails as they are)
UsersPOSTBegin(user, body) ==
    LET status ==
            IF ~body.json THEN 500
            ELSE IF body.email = "" \/ body.password = "" \/ body.name = ""
                    \/ body.role = "" THEN 400
            ELSE IF body.role \notin VALID_ROLES THEN 400
            ELSE IF \E u \in db.users : u.email = body.email THEN 400
            ELSE 0
    IN  /\ IF status # 0
           THEN /\ last' = DbResponse("UsersPOST", user, status, {})
                /\ UNCHANGED inflight
           ELSE /\ Cardinality(inflight) < MaxDbInflight
                /\ Cardinality(db.users)
                     + Cardinality({r \in inflight : r.op = "UsersPOST"}) < MaxUsers
                /\ inflight' = inflight \cup
                       {DbSuspended("UsersPOST", user, "insert", "", body)}
                /\ UNCHANGED last
        /\ UNCHANGED <<call, ret, pc, db, models, dataStore, nextId>>

\* POST /api/users, the insert: the unique index on email makes it throw when a
\* concurrent request inserted the same email first
UsersPOSTFinish(req) ==
    LET newUser == [id |-> NextKey(db.users), email |-> req.body.email,
                    password |-> "hash", name |-> req.body.name, role |-> req.body.role]
    IN  /\ req \in inflight
        /\ req.op = "UsersPOST"
        /\ inflight' = inflight \ {req}
        /\ IF \E u \in db.users : u.email = req.body.email
           THEN /\ last' = DbResponse("UsersPOST", req.user, 500, {})
                /\ UNCHANGED db
           ELSE /\ db' = [db EXCEPT !.users = @ \cup {newUser}]
                /\ last' = DbResponse("UsersPOST", req.user, 201, {excludePassword(newUser)})
        /\ UNCHANGED <<call, ret, pc, models, dataStore, nextId>>

\* bodies of POST /api/sessions (expiresAt is present and a valid timestamp)
SessionBodies ==
    {[json |-> TRUE, userId |-> u, token |-> t] :
        u \in {"", "abc", "1", "9"}, t \in {"", "tok"}}
    \cup {NotJson}

\* POST /api/sessions, up to the wait for the user lookup
SessionsPOSTBegin(user, body) ==
    LET status ==
            IF ~body.json THEN 500
            ELSE IF body.userId = "" \/ body.token = "" THEN 400
            ELSE IF isNaN(ParseInt(body.userId)) THEN 400
            ELSE 0
    IN  /\ IF status # 0
           THEN /\ last' = DbResponse("SessionsPOST", user, status, {})
                /\ UNCHANGED inflight
           ELSE /\ Cardinality(inflight) < MaxDbInflight
                /\ Cardinality(db.sessions)
                     + Cardinality({r \in inflight : r.op = "SessionsPOST"}) < MaxSessions
                /\ inflight' = inflight \cup
                       {DbSuspended("SessionsPOST", user, "user", "", body)}
                /\ UNCHANGED last
        /\ UNCHANGED <<call, ret, pc, db, models, dataStore, nextId>>

\* POST /api/sessions, from the user lookup to the wait for the token lookup
SessionsPOSTUser(req) ==
    LET userExists == {u \in db.users : Num(u.id) = ParseInt(req.body.userId)}
    IN  /\ req \in inflight
        /\ req.op = "SessionsPOST"
        /\ req.pc = "user"
        /\ IF userExists = {}
           THEN /\ inflight' = inflight \ {req}
                /\ last' = DbResponse("SessionsPOST", req.user, 400, {})
           ELSE /\ inflight' = (inflight \ {req}) \cup {[req EXCEPT !.pc = "token"]}
                /\ UNCHANGED last
        /\ UNCHANGED <<call, ret, pc, db, models, dataStore, nextId>>

\* POST /api/sessions, from the token lookup to the wait for the insert
SessionsPOSTToken(req) ==
    LET tokenExists == {x \in db.sessions : x.token = req.body.token}
    IN  /\ req \in inflight
        /\ req.op = "SessionsPOST"
        /\ req.pc = "token"
        /\ IF tokenExists # {}
           THEN /\ inflight' = inflight \ {req}
                /\ last' = DbResponse("SessionsPOST", req.user, 400, {})
           ELSE /\ inflight' = (inflight \ {req}) \cup {[req EXCEPT !.pc = "insert"]}
                /\ UNCHANGED last
        /\ UNCHANGED <<call, ret, pc, db, models, dataStore, nextId>>

\* POST /api/sessions, the insert (the unique index on token makes it throw when
\* the token was inserted meanwhile)
SessionsPOSTFinish(req) ==
    LET newSession == [id |-> NextKey(db.sessions),
                       userId |-> ParseInt(req.body.userId).n, token |-> req.body.token]
    IN  /\ req \in inflight
        /\ req.op = "SessionsPOST"
        /\ req.pc = "insert"
        /\ inflight' = inflight \ {req}
        /\ IF \E x \in db.sessions : x.token = req.body.token
           THEN /\ last' = DbResponse("SessionsPOST", req.user, 500, {})
                /\ UNCHANGED db
           ELSE /\ db' = [db EXCEPT !.sessions = @ \cup {newSession}]
                /\ last' = DbResponse("SessionsPOST", req.user, 201, {newSession})
        /\ UNCHANGED <<call, ret, pc, models, dataStore, nextId>>

\* requests that will insert a model_versions row once they get there
VersionWriters == {r \in inflight : r.op \in {"ModelDefinitionsPUT", "ModelVersionsPOST"}}

\* existingVersions.length === 0 ? 1 : existingVersions[0].version + 1, over the
\* versions of one definition ordered by version, highest first
nextVersion(modelDefinitionId) ==
    LET existingVersions == {v \in db.modelVersions : v.modelDefinitionId = modelDefinitionId}
        highest == CHOOSE v \in existingVersions :
                        \A w \in existingVersions : w.version <= v.version
    IN  IF existingVersions = {} THEN 1 ELSE highest.version + 1

\* the model_versions row both handlers insert
VersionRow(modelDefinitionId, version, definition, createdBy) ==
    [id |-> NextKey(db.modelVersions), modelDefinitionId |-> modelDefinitionId,
     version |-> version, definition |-> definition, createdBy |-> createdBy]

\* bodies of PUT /api/model-definitions: fields "" and updatedBy 0 are absent
\* properties (name, tableName, ownerField and rbac are absent throughout)
DefinitionBodies ==
    {[json |-> TRUE, fields |-> "[1]", updatedBy |-> 0],
     [json |-> TRUE, fields |-> "", updatedBy |-> 2]}
    \cup {NotJson}

\* PUT /api/model-definitions?id=, up to the wait for the update
ModelDefinitionsPUTBegin(user, id, body) ==
    LET existing == {d \in db.modelDefinitions : Num(d.id) = ParseInt(id)}
        status ==
            IF id = "" \/ isNaN(ParseInt(id)) THEN 400
            ELSE IF ~body.json THEN 500
            ELSE IF existing = {} THEN 404
            ELSE 0
    IN  /\ IF status # 0
           THEN /\ last' = DbResponse("ModelDefinitionsPUT", user, status, {})
                /\ UNCHANGED inflight
           ELSE /\ Cardinality(inflight) < MaxDbInflight
                /\ Cardinality(db.modelVersions) + Cardinality(VersionWriters) < MaxVersions
                /\ inflight' = inflight \cup
                       {[DbSuspended("ModelDefinitionsPUT", user, "update", id, body)
                            EXCEPT !.existing = existing]}
                /\ UNCHANGED last
        /\ UNCHANGED <<call, ret, pc, db, models, dataStore, nextId>>

\* PUT /api/model-definitions, the update of the row
ModelDefinitionsPUTUpdate(req) ==
    LET existing == {d \in db.modelDefinitions : Num(d.id) = ParseInt(req.id)}
        updated == {IF req.body.fields # "" THEN [d EXCEPT !.fields = req.body.fields]
                    ELSE d : d \in existing}
    IN  /\ req \in inflight
        /\ req.op = "ModelDefinitionsPUT"
        /\ req.pc = "update"
        /\ db' = [db EXCEPT !.modelDefinitions = (@ \ existing) \cup updated]
        /\ IF updated = {}
           THEN /\ inflight' = inflight \ {req}
                /\ last' = DbResponse("ModelDefinitionsPUT", req.user, 404, {})
           ELSE /\ inflight' = (inflight \ {req}) \cup
                       {[req EXCEPT !.pc = "versions", !.updated = updated]}
                /\ UNCHANGED last
        /\ UNCHANGED <<call, ret, pc, models, dataStore, nextId>>

\* PUT /api/model-definitions, "Get the next version number"
ModelDefinitionsPUTVersions(req) ==
    /\ req \in inflight
    /\ req.op = "ModelDefinitionsPUT"
    /\ req.pc = "versions"
    /\ inflight' = (inflight \ {req}) \cup
           {[req EXCEPT !.pc = "insert", !.nextVersion = nextVersion(ParseInt(req.id).n)]}
    /\ UNCHANGED <<call, ret, pc, db, models, dataStore, nextId, last>>

\* PUT /api/model-definitions, the insert of the version and the answer: the
\* version carries the fields of the row the update returned
ModelDefinitionsPUTFinish(req) ==
    LET existing == CHOOSE d \in req.existing : TRUE
        updated == CHOOSE d \in req.updated : TRUE
        createdByUserId ==
            IF req.body.updatedBy # 0 THEN req.body.updatedBy ELSE existing.createdBy
        row == VersionRow(ParseInt(req.id).n, req.nextVersion, updated.fields,
                          createdByUserId)
    IN  /\ req \in inflight
        /\ req.op = "ModelDefinitionsPUT"
        /\ req.pc = "insert"
        /\ inflight' = inflight \ {req}
        /\ db' = [db EXCEPT !.modelVersions = @ \cup {row}]
        /\ last' = DbResponse("ModelDefinitionsPUT", req.user, 200, req.updated)
        /\ UNCHANGED <<call, ret, pc, models, dataStore, nextId>>

\* bodies of POST /api/model-versions: one that passes every check, and one per
\* check that a body can fail
GoodVersionBody ==
    [json |-> TRUE, modelDefinitionId |-> "1", definition |-> "{}",
     changeDescription |-> "manual", createdBy |-> "2"]

VersionBodies ==
    {GoodVersionBody,
     [GoodVersionBody EXCEPT !.modelDefinitionId = ""],
     [GoodVersionBody EXCEPT !.modelDefinitionId = "abc"],
     [GoodVersionBody EXCEPT !.modelDefinitionId = "9"],
     [GoodVersionBody EXCEPT !.definition = ""],
     [GoodVersionBody EXCEPT !.definition = "{"],
     [GoodVersionBody EXCEPT !.changeDescription = ""],
     [GoodVersionBody EXCEPT !.createdBy = ""],
     [GoodVersionBody EXCEPT !.createdBy = "9"],
     NotJson}

\* POST /api/model-versions, up to the wait for the definition lookup
ModelVersionsPOSTBegin(user, body) ==
    LET status ==
            IF ~body.json THEN 500
            ELSE IF body.modelDefinitionId = "" \/ body.definition = ""
                    \/ body.changeDescription = "" \/ body.createdBy = "" THEN 400
            ELSE IF isNaN(ParseInt(body.modelDefinitionId)) THEN 400
            ELSE IF isNaN(ParseInt(body.createdBy)) THEN 400
            ELSE 0
    IN  /\ IF status # 0
           THEN /\ last' = DbResponse("ModelVersionsPOST", user, status, {})
                /\ UNCHANGED inflight
           ELSE /\ Cardinality(inflight) < MaxDbInflight
                /\ Cardinality(db.modelVersions) + Cardinality(VersionWriters) < MaxVersions
                /\ inflight' = inflight \cup
                       {DbSuspended("ModelVersionsPOST", user, "definition", "", body)}
                /\ UNCHANGED last
        /\ UNCHANGED <<call, ret, pc, db, models, dataStore, nextId>>

\* POST /api/model-versions, "Validate modelDefinitionId exists"
ModelVersionsPOSTDefinition(req) ==
    LET modelDefinition ==
            {d \in db.modelDefinitions : Num(d.id) = ParseInt(req.body.modelDefinitionId)}
    IN  /\ req \in inflight
        /\ req.op = "ModelVersionsPOST"
        /\ req.pc = "definition"
        /\ IF modelDefinition = {}
           THEN /\ inflight' = inflight \ {req}
                /\ last' = DbResponse("ModelVersionsPOST", req.user, 400, {})
           ELSE /\ inflight' = (inflight \ {req}) \cup {[req EXCEPT !.pc = "user"]}
                /\ UNCHANGED last
        /\ UNCHANGED <<call, ret, pc, db, models, dataStore, nextId>>

\* POST /api/model-versions, "Validate createdBy exists" and the JSON check of
\* the definition ("{" stands for a string that JSON.parse rejects)
ModelVersionsPOSTUser(req) ==
    LET user == {u \in db.users : Num(u.id) = ParseInt(req.body.createdBy)}
    IN  /\ req \in inflight
        /\ req.op = "ModelVersionsPOST"
        /\ req.pc = "user"
        /\ IF user = {} \/ req.body.definition = "{"
           THEN /\ inflight' = inflight \ {req}
                /\ last' = DbResponse("ModelVersionsPOST", req.user, 400, {})
           ELSE /\ inflight' = (inflight \ {req}) \cup {[req EXCEPT !.pc = "versions"]}
                /\ UNCHANGED last
        /\ UNCHANGED <<call, ret, pc, db, models, dataStore, nextId>>

\* POST /api/model-versions, "Get the next version number"
ModelVersionsPOSTVersions(req) ==
    /\ req \in inflight
    /\ req.op = "ModelVersionsPOST"
    /\ req.pc = "versions"
    /\ inflight' = (inflight \ {req}) \cup
           {[req EXCEPT !.pc = "insert",
                        !.nextVersion = nextVersion(ParseInt(req.body.modelDefinitionId).n)]}
    /\ UNCHANGED <<call, ret, pc, db, models, dataStore, nextId, last>>

\* POST /api/model-versions, "Insert new version" and the answer
ModelVersionsPOSTFinish(req) ==
    LET row == VersionRow(ParseInt(req.body.modelDefinitionId).n, req.nextVersion,
                          req.body.definition, ParseInt(req.body.createdBy).n)
    IN  /\ req \in inflight
        /\ req.op = "ModelVersionsPOST"
        /\ req.pc = "insert"
        /\ inflight' = inflight \ {req}
        /\ db' = [db EXCEPT !.modelVersions = @ \cup {row}]
        /\ last' = DbResponse("ModelVersionsPOST", req.user, 201, {row})
        /\ UNCHANGED <<call, ret, pc, models, dataStore, nextId>>

-----------------------------------------------------------------------------
(* The server: empty stores, then any interleaving of handler steps *)

\* the pure-call variables when no pure call is modelled
NoCall ==
    [fn |-> "none", role |-> "Viewer", action |-> "read", rule |-> NoRule,
     userId |-> "", ownerId |-> Undefined, requiredRole |-> "Viewer"]

Init ==
    /\ call = NoCall
    /\ ret = FALSE
    /\ pc = "ready"
    /\ db = SeedDb
    /\ models = [m \in ModelNames |-> NoModel]
    /\ dataStore = [m \in ModelNames |-> <<>>]
    /\ nextId = 0
    /\ inflight = {}
    /\ last = NoResponse

Next ==
    \/ \E user \in Callers, modelName \in ModelNames : DataGET(user, modelName)
    \/ \E user \in Callers, modelName \in ModelNames, id \in AllIds :
            DataGETById(user, modelName, id)
    \/ \E user \in Callers, modelName \in ModelNames, id \in AllIds :
            DataDELETE(user, modelName, id)
    \/ \E user \in Callers, modelName \in ModelNames, id \in AllIds :
            DataPUTBegin(user, modelName, id)
    \/ \E req \in inflight, data \in DataPayloads : DataPUTFinish(req, data)
    \/ \E user \in Callers, modelName \in ModelNames : DataPOSTBegin(user, modelName)
    \/ \E req \in inflight, data \in DataPayloads : DataPOSTFinish(req, data)
    \/ \E req \in inflight : DataBodyRejected(req)
    \/ \E user \in Callers, modelData \in ModelPayloads : ModelsPOST(user, modelData)
    \/ \E user \in Callers, name \in ModelNames : ModelDELETE(user, name)

Spec == Init /\ [][Next]_vars

-----------------------------------------------------------------------------
(* The server with Product defined once, with an ownerField, and only data  *)
(* requests from then on                                                     *)

\* the definitions POST /api/models stores for the bodies that name an ownerField
OwnedModels ==
    {BuildModel(modelData) : modelData \in
        {p \in ModelPayloads : p.name # "" /\ p.fieldsArray /\ p.ownerField # ""}}

InitOwned ==
    /\ call = NoCall
    /\ ret = FALSE
    /\ pc = "ready"
    /\ db = SeedDb
    /\ models \in [ModelNames -> OwnedModels]
    /\ \A m \in ModelNames : models[m].name = m
    /\ dataStore = [m \in ModelNames |-> <<>>]
    /\ nextId = 0
    /\ inflight = {}
    /\ last = NoResponse

NextOwned ==
    \/ \E user \in Callers, modelName \in ModelNames : DataGET(user, modelName)
    \/ \E user \in Callers, modelName \in ModelNames, id \in AllIds :
            DataGETById(user, modelName, id)
    \/ \E user \in Callers, modelName \in ModelNames, id \in AllIds :
            DataDELETE(user, modelName, id)
    \/ \E user \in Callers, modelName \in ModelNames, id \in AllIds :
            DataPUTBegin(user, modelName, id)
    \/ \E req \in inflight, data \in DataPayloads : DataPUTFinish(req, data)
    \/ \E user \in Callers, modelName \in ModelNames : DataPOSTBegin(user, modelName)
    \/ \E req \in inflight, data \in DataPayloads : DataPOSTFinish(req, data)
    \/ \E req \in inflight : DataBodyRejected(req)

SpecOwned == InitOwned /\ [][NextOwned]_vars

-----------------------------------------------------------------------------
(* The database-backed routes: the seeded database with one model definition, *)
(* then any interleaving of the steps of their handlers                       *)

\* who sends the requests: nobody's credentials, or the Admin's (these handlers
\* never look at the caller)
DbCallers == {NoUser} \cup {p \in Principals : p.role = "Admin"}

\* the values of ?id= sent to the routes that take one
IdParams == {"", "1", "9", "abc"}

InitDb ==
    /\ call = NoCall
    /\ ret = FALSE
    /\ pc = "ready"
    /\ db = [SeedDb EXCEPT !.modelDefinitions = {FirstDefinition}]
    /\ models = [m \in ModelNames |-> NoModel]
    /\ dataStore = [m \in ModelNames |-> <<>>]
    /\ nextId = 0
    /\ inflight = {}
    /\ last = NoResponse

NextDb ==
    \/ \E user \in DbCallers, id \in IdParams : UsersGET(user, id)
    \/ \E user \in DbCallers, body \in UserBodies : UsersPOSTBegin(user, body)
    \/ \E req \in inflight : UsersPOSTFinish(req)
    \/ \E user \in DbCallers, body \in SessionBodies : SessionsPOSTBegin(user, body)
    \/ \E req \in inflight : SessionsPOSTUser(req)
    \/ \E req \in inflight : SessionsPOSTToken(req)
    \/ \E req \in inflight : SessionsPOSTFinish(req)
    \/ \E user \in DbCallers, id \in IdParams, body \in DefinitionBodies :
            ModelDefinitionsPUTBegin(user, id, body)
    \/ \E req \in inflight : ModelDefinitionsPUTUpdate(req)
    \/ \E req \in inflight : ModelDefinitionsPUTVersions(req)
    \/ \E req \in inflight : ModelDefinitionsPUTFinish(req)
    \/ \E user \in DbCallers, body \in VersionBodies : ModelVersionsPOSTBegin(user, body)
    \/ \E req \in inflight : ModelVersionsPOSTDefinition(req)
    \/ \E req \in inflight : ModelVersionsPOSTUser(req)
    \/ \E req \in inflight : ModelVersionsPOSTVersions(req)
    \/ \E req \in inflight : ModelVersionsPOSTFinish(req)

SpecDb == InitDb /\ [][NextDb]_vars

-----------------------------------------------------------------------------
(* The decision functions of lib/rbac.ts and lib/users.ts called on their own: *)
(* the arguments are drawn at the start, one step applies the function          *)

\* user ids handed to checkOwnership
UserIds == {"", "x", "X", "user-789"}

\* owner values handed to checkOwnership: absent, null, or a string
OwnerIds == {Undefined, Null} \cup {Str(u) : u \in UserIds}

CanPerformCalls ==
    {[NoCall EXCEPT !.fn = "canPerformAction", !.role = r, !.action = a, !.rule = p] :
        r \in Roles, a \in Actions, p \in Rules}

CheckOwnershipCalls ==
    {[NoCall EXCEPT !.fn = "checkOwnership", !.role = r, !.userId = u, !.ownerId = o] :
        r \in Roles, u \in UserIds, o \in OwnerIds}

HasPermissionCalls ==
    {[NoCall EXCEPT !.fn = "hasPermission", !.role = r, !.requiredRole = q] :
        r \in Roles, q \in Roles}

InitRbac ==
    /\ call \in CanPerformCalls \cup CheckOwnershipCalls \cup HasPermissionCalls
    /\ ret = FALSE
    /\ pc = "ready"
    /\ db = SeedDb
    /\ models = [m \in ModelNames |-> NoModel]
    /\ dataStore = [m \in ModelNames |-> <<>>]
    /\ nextId = 0
    /\ inflight = {}
    /\ last = NoResponse

CallCanPerformAction ==
    /\ pc = "ready"
    /\ call.fn = "canPerformAction"
    /\ ret' = canPerformAction(call.role, call.action, call.rule)
    /\ pc' = "returned"
    /\ UNCHANGED <<call, db, models, dataStore, nextId, inflight, last>>

CallCheckOwnership ==
    /\ pc = "ready"
    /\ call.fn = "checkOwnership"
    /\ ret' = checkOwnership(call.userId, call.ownerId, call.role)
    /\ pc' = "returned"
    /\ UNCHANGED <<call, db, models, dataStore, nextId, inflight, last>>

CallHasPermission ==
    /\ pc = "ready"
    /\ call.fn = "hasPermission"
    /\ ret' = hasPermission(call.role, call.requiredRole)
    /\ pc' = "returned"
    /\ UNCHANGED <<call, db, models, dataStore, nextId, inflight, last>>

NextRbac == CallCanPerformAction \/ CallCheckOwnership \/ CallHasPermission

SpecRbac == InitRbac /\ [][NextRbac]_vars

-----------------------------------------------------------------------------
(* The validators of lib/models.ts called on their own: the arguments are   *)
(* drawn at the start, one step applies the function                        *)

FieldTypes == {"string", "number", "boolean", "date", "email", "url"}

\* the constraint sets the validated fields declare
Validations ==
    {[NoValidation EXCEPT !.required = r] : r \in BOOLEAN}
    \cup {[NoValidation EXCEPT !.required = r, !.min = Limit(0), !.max = Limit(10)] :
            r \in BOOLEAN}
    \cup {[NoValidation EXCEPT !.min = Limit(10), !.max = Limit(0)],
          [NoValidation EXCEPT !.min = Limit(5), !.max = Limit(10)]}
    \cup {[NoValidation EXCEPT !.required = r, !.minLength = Limit(2),
                               !.maxLength = Limit(4)] : r \in BOOLEAN}
    \cup {[NoValidation EXCEPT !.minLength = Limit(4), !.maxLength = Limit(2)],
          [NoValidation EXCEPT !.minLength = Limit(2), !.maxLength = Limit(4),
                               !.pattern = "^[a-z]+$"]}
    \cup {[NoValidation EXCEPT !.required = r, !.pattern = p] :
            r \in BOOLEAN, p \in {"^[a-z]+$", "("}}

\* field definitions handed to validateField
ValidatedFields ==
    {[name |-> "price", type |-> t, label |-> l, required |-> r, validation |-> v] :
        t \in FieldTypes, l \in {"", "Price"}, r \in BOOLEAN, v \in Validations}

\* a value that is neither null nor a primitive: an object or an array
Object == [t |-> "object", s |-> "", n |-> 0]

\* values handed to validateField
ValidatedValues ==
    {Undefined, Null, Object, NaN, Infinity, Num(0), Num(5), Num(10), Num(11),
     Bool(TRUE), Bool(FALSE)}
    \cup {Str(x) : x \in {"", "abc", "a", "5", "Infinity", "true", "a@b.com",
                          "https://x.io", "2024-01-01"}}

\* the fields of the validated models: the test suite's name, price and inStock,
\* and a field whose pattern is no regular expression
NameField == Field("name", "string", TRUE)
PriceField == Field("price", "number", FALSE)
InStockField == Field("inStock", "boolean", FALSE)
CodeField ==
    [name |-> "code", type |-> "string", label |-> "", required |-> FALSE,
     validation |-> [NoValidation EXCEPT !.pattern = "("]]

\* model definitions handed to validateModelData: any selection of the fields
ValidatedModels ==
    {[name |-> "Product", ownerField |-> "", permissions |-> NoRule, fields |-> fs] :
        fs \in {<<>>, <<NameField>>, <<PriceField>>, <<NameField, PriceField>>,
                <<NameField, PriceField, InStockField>>, <<PriceField, CodeField>>,
                <<CodeField, NameField>>}}

\* data objects handed to validateModelData; extra is a property no model declares
ValidatedData ==
    {[name |-> n, price |-> p, inStock |-> b, code |-> c, extra |-> x] :
        n \in {Undefined, Str(""), Str("abc")},
        p \in {Undefined, Str("abc"), Num(5)},
        b \in {Undefined, Bool(TRUE), Str("abc")},
        c \in {Undefined, Str("abc")},
        x \in {Undefined, Str("abc")}}

ValidateFieldCalls ==
    {[fn |-> "validateField", value |-> v, field |-> f] :
        v \in ValidatedValues, f \in ValidatedFields}

ValidateModelDataCalls ==
    {[fn |-> "validateModelData", data |-> d, model |-> m] :
        d \in ValidatedData, m \in ValidatedModels}

InitValidate ==
    /\ call \in ValidateFieldCalls \cup ValidateModelDataCalls
    /\ ret = FALSE
    /\ pc = "ready"
    /\ db = SeedDb
    /\ models = [m \in ModelNames |-> NoModel]
    /\ dataStore = [m \in ModelNames |-> <<>>]
    /\ nextId = 0
    /\ inflight = {}
    /\ last = NoResponse

\* ret holds whether the call threw and, when it did not, the error it returned
CallValidateField ==
    LET error == validateField(call.value, call.field)
    IN  /\ pc = "ready"
        /\ call.fn = "validateField"
        /\ ret' = [threw |-> error = Thrown, error |-> error]
        /\ pc' = "returned"
        /\ UNCHANGED <<call, db, models, dataStore, nextId, inflight, last>>

\* ret holds whether the call threw and, when it did not, the errors object
CallValidateModelData ==
    LET threw == validateModelDataThrows(call.data, call.model)
    IN  /\ pc = "ready"
        /\ call.fn = "validateModelData"
        /\ ret' = [threw |-> threw,
                   errors |-> IF threw THEN <<>>
                              ELSE validateModelData(call.data, call.model)]
        /\ pc' = "returned"
        /\ UNCHANGED <<call, db, models, dataStore, nextId, inflight, last>>

NextValidate == CallValidateField \/ CallValidateModelData

SpecValidate == InitValidate /\ [][NextValidate]_vars

-----------------------------------------------------------------------------
(* Claims about canPerformAction, checked under SpecRbac *)

Returned(fn) == pc = "returned" /\ call.fn = fn

\* the entry of the called rule for the called action
CalledEntry == call.rule.entries[call.action]

\* the rule whose only entry is `entry`, for the called action
OnlyEntry(entry) == Rule([a \in Actions |-> IF a = call.action THEN entry ELSE NoEntry])

\* C1: with the rule absent, or with no entry for the action, canPerformAction
\* returns true iff the role is Admin, which is also what it returns for a rule
\* whose entry for that action is exactly [Admin].
C1_AbsentRuleIsAdminOnly ==
    (Returned("canPerformAction") /\ (~call.rule.defined \/ ~CalledEntry.present))
        => /\ ret = (call.role = "Admin")
           /\ ret = canPerformAction(call.role, call.action, OnlyEntry(RoleList({"Admin"})))

C1_Witness ==
    /\ Returned("canPerformAction")
    /\ call.rule.defined
    /\ ~CalledEntry.present
    /\ \E a \in Actions : call.rule.entries[a].present
    /\ call.role = "Manager"
    /\ ret = FALSE

\* C2: with an empty role list as the entry for the action, canPerformAction
\* returns true iff the role is Admin.
C2_EmptyEntryIsAdminOnly ==
    (Returned("canPerformAction") /\ call.rule.defined /\ CalledEntry = RoleList({}))
        => ret = (call.role = "Admin")

C4_AdminAlwaysAllowed ==
    (Returned("canPerformAction") /\ call.role = "Admin") => ret = TRUE

-----------------------------------------------------------------------------
(* Claims about checkOwnership, checked under SpecRbac *)

\* C5: checkOwnership returns true for Admin, for every user id and every owner
\* value, the absent one and the empty string included.
C5_AdminOwnsEverything ==
    (Returned("checkOwnership") /\ call.role = "Admin") => ret = TRUE

C5_Witness ==
    /\ Returned("checkOwnership")
    /\ call.role = "Admin"
    /\ call.userId = "x"
    /\ call.ownerId = Str("user-789")
    /\ ret = TRUE

\* C6: checkOwnership returns true for every user id and every role when the
\* owner value is absent (undefined).
C6_AbsentOwnerIsPublic ==
    (Returned("checkOwnership") /\ call.ownerId = Undefined) => ret = TRUE

C6_Witness ==
    /\ Returned("checkOwnership")
    /\ call.ownerId = Undefined
    /\ call.role = "Viewer"
    /\ call.userId = "user-789"
    /\ ret = TRUE

\* C7: for a non-Admin role and a non-empty string as the owner value,
\* checkOwnership returns true iff the user id is that very string (case
\* included), and Manager and Viewer get the same answer.
C7_NonAdminNeedsExactId ==
    (Returned("checkOwnership") /\ call.role # "Admin"
            /\ call.ownerId.t = "string" /\ call.ownerId.s # "")
        => /\ ret = (call.userId = call.ownerId.s)
           /\ ret = checkOwnership(call.userId, call.ownerId, "Manager")
           /\ ret = checkOwnership(call.userId, call.ownerId, "Viewer")

C7_Witness ==
    /\ Returned("checkOwnership")
    /\ call.role = "Manager"
    /\ call.userId = "x"
    /\ call.ownerId = Str("X")
    /\ ret = FALSE

\* C8: the empty string as the owner value counts as an owner: for a non-Admin
\* role checkOwnership returns true iff the user id is the empty string too.
C8_EmptyOwnerIsAnOwner ==
    (Returned("checkOwnership") /\ call.role # "Admin" /\ call.ownerId = Str(""))
        => ret = (call.userId = "")

-----------------------------------------------------------------------------
(* Claim about hasPermission, checked under SpecRbac *)

\* Admin > Manager > Viewer, as the pairs (a, b) with a at least b
RoleOrder ==
    {<<"Admin", "Admin">>, <<"Admin", "Manager">>, <<"Admin", "Viewer">>,
     <<"Manager", "Manager">>, <<"Manager", "Viewer">>, <<"Viewer", "Viewer">>}

\* C9: hasPermission is the total order Admin > Manager > Viewer: reflexive,
\* total, transitive, and holding both ways only between a role and itself.
C9_HasPermissionIsTotalOrder ==
    Returned("hasPermission") =>
        LET a == call.role
            b == call.requiredRole
        IN  /\ ret = (<<a, b>> \in RoleOrder)
            /\ hasPermission(a, a)
            /\ ret \/ hasPermission(b, a)
            /\ (ret /\ hasPermission(b, a)) => a = b
            /\ \A c \in Roles : (ret /\ hasPermission(b, c)) => hasPermission(a, c)

C9_Witness ==
    /\ Returned("hasPermission")
    /\ call.role = "Manager"
    /\ call.requiredRole = "Admin"
    /\ ret = FALSE

-----------------------------------------------------------------------------
(* Claims about the data handlers, checked under Spec *)

\* C10: on a model with an ownerField, an update never changes the stored owner
\* value of a record: a PUT that was admitted under a definition with an
\* ownerField and then completes leaves the record's owner value as it was.
C10_UpdateKeepsOwner ==
    [][\A req \in inflight :
          (/\ req.op = "PUT"
           /\ req.model.ownerField # ""
           /\ req \notin inflight'
           /\ req.id \in DOMAIN dataStore[req.modelName]
           /\ req.id \in DOMAIN dataStore'[req.modelName])
          => dataStore'[req.modelName][req.id][req.model.ownerField]
                = dataStore[req.modelName][req.id][req.model.ownerField]]_vars

\* C11: on a model with an ownerField, a successful create stores (and returns)
\* a record whose owner value is the caller's id, whatever the payload carried.
C11_CreateStampsOwner ==
    [][\A req \in inflight :
          (/\ req.op = "POST"
           /\ req.model.ownerField # ""
           /\ req \notin inflight'
           /\ nextId' = nextId + 1)
          => LET id == IdOf(nextId')
             IN  /\ last'.status = 201
                 /\ last'.record[req.model.ownerField] = Str(req.user.id)
                 /\ id \in DOMAIN dataStore'[req.modelName]
                 /\ dataStore'[req.modelName][id][req.model.ownerField]
                        = Str(req.user.id)]_vars

C11_Witness ==
    /\ last.op = "POST"
    /\ last.status = 201
    /\ last.user.id = "2"
    /\ getModel(last.modelName).ownerField = "ownerId"
    /\ getRecordById(last.modelName, last.id)["ownerId"] = Str("2")

\* C12: the id of a created record is the one the system generated, even when
\* the payload carries an id, and looking the returned id up yields the record.
C12_CreatedIdIsSystemAssigned ==
    (last.op = "POST" /\ last.status = 201)
        => /\ last.record["id"] = Str(last.id)
           /\ getRecordById(last.modelName, last.record["id"].s) = last.record

\* C13: the list endpoint returns every record to Admin and on a model without
\* ownerField; to anyone else on a model with an ownerField, exactly the records
\* whose owner value is absent or is the caller's id.
C13_ListIsOwnedOrAbsent ==
    (last.op = "GET" /\ last.status = 200)
        => LET model == getModel(last.modelName)
               data == getModelData(last.modelName)
           IN  last.data =
                   IF model.ownerField = "" \/ last.user.role = "Admin"
                   THEN data
                   ELSE {record \in data :
                            \/ Prop(record, model.ownerField) = Undefined
                            \/ Prop(record, model.ownerField) = Str(last.user.id)}

-----------------------------------------------------------------------------
(* Claim about the data handlers on a fixed definition, checked under SpecOwned *)

\* the record's owner value is the id of a user other than `user`
OwnedByOther(record, model, user) ==
    \E p \in Principals :
        p.id # user.id /\ Prop(record, model.ownerField) = Str(p.id)

\* C14: on a model with an ownerField, whatever the sequence of create, list, get,
\* update and delete requests, no response to a non-Admin carries a record whose
\* owner is another user, and no step of a non-Admin's request changes or removes
\* a stored record whose owner is another user.
C14_ForeignRecordsUntouched ==
    [][\A m \in ModelNames :
          (last'.modelName = m /\ last'.user \in Principals /\ last'.user.role # "Admin")
          => /\ \A record \in last'.data \cup {last'.record} :
                    ~OwnedByOther(record, models[m], last'.user)
             /\ \A id \in DOMAIN dataStore[m] :
                    OwnedByOther(dataStore[m][id], models[m], last'.user)
                    => /\ id \in DOMAIN dataStore'[m]
                       /\ dataStore'[m][id] = dataStore[m][id]]_vars

C14_Witness ==
    /\ last.op \in {"GETById", "PUT", "DELETE"}
    /\ last.status = 403
    /\ last.user.id = "2"
    /\ canPerformAction("Manager", "update", getModel(last.modelName).permissions)
    /\ canPerformAction("Manager", "delete", getModel(last.modelName).permissions)
    /\ getRecordById(last.modelName, last.id)["ownerId"] = Str("1")

-----------------------------------------------------------------------------
(* Claims about the database-backed routes, checked under SpecDb *)

\* C15: every endpoint (login aside) rejects an unauthenticated request: the
\* request is never let past its first check, it is answered 401 with no row,
\* and the step that answers it changes no table, no model and no record.
C15_UnauthenticatedIsRejected ==
    [][/\ \A req \in inflight' : req.user # NoUser
       /\ (last' # last /\ last'.user = NoUser)
            => /\ last'.status = 401
               /\ last'.data = {}
               /\ last'.record = NoRecord
               /\ db' = db
               /\ models' = models
               /\ dataStore' = dataStore]_vars

\* C16: the versions of a model definition are numbered 1, 2, ..., n with no
\* number used twice and none skipped, whatever the interleaving of definition
\* updates and explicit version creations.
C16_VersionsAreSequential ==
    \A d \in db.modelDefinitions :
        LET rows == {v \in db.modelVersions : v.modelDefinitionId = d.id}
        IN  {v.version : v \in rows} = 1..Cardinality(rows)

-----------------------------------------------------------------------------
(* Claims about the validators, checked under SpecValidate *)

\* C17: the mapping validateModelData returns contains the name of a declared
\* field iff validateField on data[name] yields an error for that field, with
\* that error as the value; it names no property the model does not declare,
\* and it is empty iff every declared field is valid.
C17_ErrorsAreTheFailingFields ==
    (Returned("validateModelData") /\ ~ret.threw)
        => LET fields == call.model.fields
               errors == ret.errors
               errorOf(i) == validateField(call.data[fields[i].name], fields[i])
           IN  /\ \A i \in 1..Len(fields) :
                    /\ (fields[i].name \in DOMAIN errors) = (errorOf(i) # NoError)
                    /\ fields[i].name \in DOMAIN errors
                            => errors[fields[i].name] = errorOf(i)
               /\ DOMAIN errors \subseteq {fields[i].name : i \in 1..Len(fields)}
               /\ (DOMAIN errors = {})
                    = (\A i \in 1..Len(fields) : errorOf(i) = NoError)

C17_Witness ==
    /\ Returned("validateModelData")
    /\ ~ret.threw
    /\ call.model.fields = <<NameField, PriceField, InStockField>>
    /\ call.data["extra"] = Str("abc")
    /\ call.data["inStock"] = Bool(TRUE)
    /\ DOMAIN ret.errors = {"name", "price"}
    /\ ret.errors["name"] = "name is required"
    /\ ret.errors["price"] = "price must be a number"

\* C18: for an empty value (null, undefined or the empty string) validateField
\* returns "<label or name> is required" iff the field is required, by
\* validation.required or by the legacy required flag, and no error otherwise,
\* whatever the field's type and constraints.
C18_EmptyFailsIffRequired ==
    (Returned("validateField") /\ call.value \in {Null, Undefined, Str("")})
        => /\ ~ret.threw
           /\ ret.error =
                 IF call.field.validation.required \/ call.field.required
                 THEN LabelOrName(call.field) \o " is required"
                 ELSE NoError

C18_Witness ==
    /\ Returned("validateField")
    /\ call.value = Str("")
    /\ call.field.validation.required
    /\ ~call.field.required
    /\ call.field.type = "number"
    /\ call.field.label = "Price"
    /\ ret.error = "Price is required"

\* C19: validateField and validateModelData never throw, whatever the value and
\* the field definition, a pattern that is no regular expression included.
C19_ValidatorsNeverThrow ==
    (Returned("validateField") \/ Returned("validateModelData")) => ~ret.threw

\* C20: for a number field and a non-empty value, validateField returns the
\* "must be a number" error iff the value's numeric coercion is not a finite
\* number.
C20_NumberMeansFinite ==
    (Returned("validateField") /\ call.field.type = "number"
            /\ call.value \notin {Null, Undefined, Str("")})
        => (ret.error = LabelOrName(call.field) \o " must be a number")
                = (ToNumber(call.value).s # "")

-----------------------------------------------------------------------------
(* Claims about the order of the handlers' checks and about what a refused  *)
(* request leaves behind, checked under Spec                                *)

\* the CRUD action a single-record handler asks permission for
ActionOf(op) ==
    CASE op = "GETById" -> "read"
      [] op = "PUT" -> "update"
      [] op = "DELETE" -> "delete"
      [] op = "POST" -> "create"
      [] OTHER -> "read"

\* the step answered a single-record request at its gate: before any await on
\* the body, for an authenticated caller, on a model that exists
AnsweredAtGate ==
    /\ last' # last
    /\ inflight' = inflight
    /\ last'.op \in {"GETById", "PUT", "DELETE"}
    /\ last'.user # NoUser
    /\ models[last'.modelName] # NoModel

\* C21: get-by-id, update and delete check the permission before they look the
\* record up and before they check ownership: a request canPerformAction denies
\* is answered 403 whether or not the record exists and whoever owns it; with
\* the permission granted a missing record is answered 404, and a 403 then means
\* that the record was found and checkOwnership refused it.
C21_PermissionBeforeLookup ==
    [][AnsweredAtGate =>
          LET model == models[last'.modelName]
              stored == last'.id \in DOMAIN dataStore[last'.modelName]
              allowed == canPerformAction(last'.user.role, ActionOf(last'.op),
                                          model.permissions)
          IN  /\ ~allowed => last'.status = 403
              /\ (allowed /\ ~stored) => last'.status = 404
              /\ (allowed /\ last'.status = 403)
                    => /\ stored
                       /\ model.ownerField # ""
                       /\ ~checkOwnership(last'.user.id,
                              dataStore[last'.modelName][last'.id][model.ownerField],
                              last'.user.role)]_vars

C21_Witness ==
    /\ last.op = "PUT"
    /\ last.status = 403
    /\ last.user.role = "Viewer"
    /\ models[last.modelName] # NoModel
    /\ ~canPerformAction("Viewer", "update", models[last.modelName].permissions)
    /\ last.id \notin DOMAIN dataStore[last.modelName]

\* the owner check passes for `user` on `record` under `model`
OwnerAllows(user, model, record) ==
    model.ownerField = ""
        \/ checkOwnership(user.id, Prop(record, model.ownerField), user.role)

\* the conditions under which a delete may change the record store
DeleteWasDue ==
    LET user == last'.user
        model == models[last'.modelName]
        id == last'.id
    IN  /\ last'.op = "DELETE"
        /\ last'.status = 200
        /\ inflight' = inflight
        /\ user # NoUser
        /\ model # NoModel
        /\ canPerformAction(user.role, "delete", model.permissions)
        /\ id \in DOMAIN dataStore[last'.modelName]
        /\ OwnerAllows(user, model, dataStore[last'.modelName][id])

\* the conditions under which the create or update `req` may change the record
\* store, with the change it makes
WriteWasDue(req) ==
    /\ req \notin inflight'
    /\ req.user # NoUser
    /\ req.model # NoModel
    /\ canPerformAction(req.user.role, ActionOf(req.op), req.model.permissions)
    /\ req.op = "PUT"
            => /\ req.existingRecord # NoRecord
               /\ OwnerAllows(req.user, req.model, req.existingRecord)
               /\ last'.status = 200
               /\ \E data \in DataPayloads :
                    /\ DOMAIN validateModelData(Spread(req.existingRecord, data),
                                                req.model) = {}
                    /\ last'.record = Updated(dataStore[req.modelName][req.id],
                                              StripOwner(data, req.model), req.id)
    /\ req.op = "POST"
            => /\ last'.status = 201
               /\ \E data \in DataPayloads :
                    /\ DOMAIN validateModelData(data, req.model) = {}
                    /\ last'.record = NewRecord(last'.id,
                                                StampOwner(data, req.model, req.user))

-----------------------------------------------------------------------------
(* Claims about the order of validateField's checks, checked under          *)
(* SpecValidate                                                             *)

\* the checks in the order the claim gives them
CheckOrder ==
    <<"required", "number", "min", "max", "minLength", "maxLength", "pattern",
      "email", "url">>

\* whether `check`, taken by itself, rejects `value` for `field`; every check
\* but the first is skipped for an empty value
CheckFails(check, value, field) ==
    LET validation == field.validation
        isEmpty == value = Null \/ value = Undefined \/ value = Str("")
        isText == field.type \in {"string", "email", "url"}
        num == ToNumber(value)
        str == ToStr(value)
    IN  CASE check = "required" -> (validation.required \/ field.required) /\ isEmpty
          [] check = "number" -> ~isEmpty /\ field.type = "number" /\ isNaN(num)
          [] check = "min" ->
                ~isEmpty /\ field.type = "number" /\ validation.min.set
                    /\ NumLess(num, validation.min.v)
          [] check = "max" ->
                ~isEmpty /\ field.type = "number" /\ validation.max.set
                    /\ NumGreater(num, validation.max.v)
          [] check = "minLength" ->
                ~isEmpty /\ isText /\ validation.minLength.set
                    /\ Len(str) < validation.minLength.v
          [] check = "maxLength" ->
                ~isEmpty /\ isText /\ validation.maxLength.set
                    /\ Len(str) > validation.maxLength.v
          [] check = "pattern" ->
                ~isEmpty /\ isText /\ validation.pattern # ""
                    /\ ~RegexTest(validation.pattern, str)
          [] check = "email" -> ~isEmpty /\ field.type = "email" /\ ~EmailRegexTest(str)
          [] check = "url" -> ~isEmpty /\ field.type = "url" /\ ~UrlParses(str)
          [] OTHER -> FALSE

\* the message of `check` for `field`
CheckMessage(check, field) ==
    LET who == LabelOrName(field)
        validation == field.validation
    IN  CASE check = "required" -> who \o " is required"
          [] check = "number" -> who \o " must be a number"
          [] check = "min" -> who \o " must be at least " \o ToString(validation.min.v)
          [] check = "max" -> who \o " must be at most " \o ToString(validation.max.v)
          [] check = "minLength" ->
                who \o " must be at least " \o ToString(validation.minLength.v)
                    \o " characters"
          [] check = "maxLength" ->
                who \o " must be at most " \o ToString(validation.maxLength.v)
                    \o " characters"
          [] check = "pattern" -> who \o " format is invalid"
          [] check = "email" -> who \o " must be a valid email"
          [] check = "url" -> who \o " must be a valid URL"
          [] OTHER -> NoError

\* the positions in CheckOrder of the checks the call's value fails
FailingChecks ==
    {i \in 1..Len(CheckOrder) : CheckFails(CheckOrder[i], call.value, call.field)}

\* C23: validateField reports at most one error, that of the first failing check
\* in the order required; number-ness, min, max; minLength, maxLength, pattern;
\* email or URL format (for a string, number, email or url field, when the
\* call returns).
C23_FirstFailingCheckIsReported ==
    (Returned("validateField") /\ ~ret.threw
        /\ call.field.type \in {"string", "number", "email", "url"})
        => IF FailingChecks = {} THEN ret.error = NoError
           ELSE ret.error =
                    CheckMessage(
                        CheckOrder[CHOOSE i \in FailingChecks :
                                        \A k \in FailingChecks : i <= k],
                        call.field)

\* 5 under min 10 and max 0 fails both bounds, and the min is reported
C23_Witness ==
    /\ Returned("validateField")
    /\ call.value = Num(5)
    /\ call.field.type = "number"
    /\ {2, 3, 4} \cap FailingChecks = {3, 4}
    /\ ret = [threw |-> FALSE, error |-> "price must be at least 10"]

\* the call validates a non-empty value that coerces to a finite number
\* against a number field that declares both bounds
BoundedNumberCall ==
    /\ Returned("validateField")
    /\ call.field.type = "number"
    /\ call.field.validation.min.set
    /\ call.field.validation.max.set
    /\ call.value \notin {Null, Undefined, Str("")}
    /\ ToNumber(call.value).s = ""

\* C24: a number field with bounds accepts exactly min <= n <= max, both ends
\* included; 'must be at least' is reported exactly when n < min, and 'must be
\* at most' exactly when n >= min and n > max.
C24_BoundsAreInclusive ==
    BoundedNumberCall =>
        LET n == ToNumber(call.value).n
            min == call.field.validation.min.v
            max == call.field.validation.max.v
            who == LabelOrName(call.field)
        IN  /\ ~ret.threw
            /\ ret.error = NoError <=> (min <= n /\ n <= max)
            /\ ret.error = who \o " must be at least " \o ToString(min) <=> n < min
            /\ ret.error = who \o " must be at most " \o ToString(max)
                    <=> (n >= min /\ n > max)

\* the upper bound itself is accepted
C24_Witness ==
    /\ BoundedNumberCall
    /\ call.value = Num(10)
    /\ call.field.validation.min.v = 5
    /\ call.field.validation.max.v = 10
    /\ ret.error = NoError

-----------------------------------------------------------------------------
(* Claims about requests interleaved with changes of the model store,       *)
(* checked under Spec                                                       *)

\* the suspended create `req` is completed with body `data` as `model` decides
CreatedUnder(req, data, model) ==
    LET owned == IF model.ownerField # ""
                 THEN WithProp(data, model.ownerField, Str(req.user.id))
                 ELSE data
    IN  IF DOMAIN validateModelData(data, model) # {}
        THEN last'.status = 400 /\ dataStore' = dataStore
        ELSE /\ last'.status = 201
             /\ last'.record = NewRecord(last'.id, owned)
             /\ dataStore'[req.modelName][last'.id] = last'.record

\* the suspended update `req` is completed with body `data` as `model` decides
UpdatedUnder(req, data, model) ==
    LET kept == IF model.ownerField # "" /\ Truthy(Prop(data, model.ownerField))
                THEN Without(data, model.ownerField)
                ELSE data
    IN  IF DOMAIN validateModelData(Spread(req.existingRecord, data), model) # {}
        THEN last'.status = 400 /\ dataStore' = dataStore
        ELSE /\ last'.status = 200
             /\ req.id \in DOMAIN dataStore[req.modelName]
                    => /\ last'.record = Updated(dataStore[req.modelName][req.id],
                                                 kept, req.id)
                       /\ dataStore'[req.modelName][req.id] = last'.record

\* C25: a data request uses the model definition it read at its start: a
\* request is suspended holding the definition stored at that moment, and it is
\* completed (validated, owner-stamped or owner-stripped) as that definition
\* decides, whatever saveModel and deleteModel did in between.
C25_RequestKeepsItsModel ==
    [][/\ \A req \in inflight' \ inflight :
            req.model = models[req.modelName] /\ req.model # NoModel
       /\ \A req \in inflight \ inflight' :
            last'.status # 500 =>
                \E data \in DataPayloads :
                    IF req.op = "POST" THEN CreatedUnder(req, data, req.model)
                    ELSE UpdatedUnder(req, data, req.model)]_vars

\* a create answered 201 with the caller stamped as owner although the stored
\* definition no longer names an owner field
C25_Witness ==
    /\ last.op = "POST"
    /\ last.status = 201
    /\ last.user.id = "1"
    /\ last.record["ownerId"] = Str("1")
    /\ models[last.modelName] # NoModel
    /\ models[last.modelName].ownerField = ""

\* the step answers a request to create or delete a model
ModelRequestAnswered ==
    last' # last /\ last'.op \in {"ModelsPOST", "ModelDELETE"}

-----------------------------------------------------------------------------
(* Claims about the two read handlers, checked under Spec *)

\* C27: the list and the single-record read agree: for a principal with read
\* permission and a stored record, the record is in the list response exactly when
\* checkOwnership allows the principal on the record's owner value, and a
\* get-by-id of the record is answered 200 exactly when it does.
C27_ListAgreesWithGetById ==
    LET model == models[last.modelName]
        stored == dataStore[last.modelName]
    IN  /\ (last.op = "GET" /\ last.status = 200)
                => \A k \in DOMAIN stored :
                        stored[k] \in last.data
                            <=> OwnerAllows(last.user, model, stored[k])
        /\ (/\ last.op = "GETById"
            /\ last.user # NoUser
            /\ model # NoModel
            /\ canPerformAction(last.user.role, "read", model.permissions)
            /\ last.id \in DOMAIN stored)
                => /\ last.status \in {200, 403}
                   /\ last.status = 200
                        <=> OwnerAllows(last.user, model, stored[last.id])
                   /\ last.status = 200 => last.record = stored[last.id]

\* a Manager lists an owned model whose one record belongs to somebody else
C27_Witness ==
    /\ last.op = "GET"
    /\ last.status = 200
    /\ last.user.role = "Manager"
    /\ last.data = {}
    /\ \E k \in DOMAIN dataStore[last.modelName] :
            ~OwnerAllows(last.user, models[last.modelName], dataStore[last.modelName][k])

-----------------------------------------------------------------------------
(* Claims about the record store under interleaved writes, checked under    *)
(* Spec                                                                     *)

\* C28: after any sequence of creates, updates and deletes, whatever the data
\* carries, every record held in the store under key k has id equal to k.
C28_StoredIdIsKey ==
    \A modelName \in ModelNames :
        \A k \in DOMAIN dataStore[modelName] :
            dataStore[modelName][k]["id"] = Str(k)

\* C29: an update answered 200 returns the updated record, which is held in the
\* store under the requested id; no update is answered 200 for a record that was
\* deleted before the write.
C29_UpdateAnswers200OnlyForStoredRecord ==
    (last.op = "PUT" /\ last.status = 200)
        => /\ last.record # NoRecord
           /\ last.id \in DOMAIN dataStore[last.modelName]
           /\ dataStore[last.modelName][last.id] = last.record

-----------------------------------------------------------------------------
(* Claims about records whose model definition was deleted, checked under   *)
(* Spec                                                                     *)

DataOps == {"GET", "GETById", "PUT", "POST", "DELETE"}

\* the step answers a data request
DataRequestAnswered == last' # last /\ last'.op \in DataOps

\* the step answers a data request that started in this very step
DataRequestAnsweredAtStart == DataRequestAnswered /\ inflight' = inflight

\* the step deletes a stored model definition
ModelDeleted ==
    last' # last /\ last'.op = "ModelDELETE" /\ last'.status = 200

\* records are stored under a model name that has no definition
Orphaned(modelName) ==
    models[modelName] = NoModel /\ DOMAIN dataStore[modelName] # {}

====
